---- MODULE Spec2Model ----
(***************************************************************************)
(* Model of IPlug/IGraphics/IControls.h: the button/switch controls        *)
(* IButtonControlBase and IVSwitchControl.                                 *)
(*                                                                         *)
(* Numbers.  mValue is a double, step and mStep are floats.  Every value   *)
(* the switch code produces from the start values used here is an integer  *)
(* multiple of 2^-24 of magnitude below 2, so it is held exactly by a      *)
(* double; a finite value is modelled by the integer n that stands for     *)
(* n * 2^-24.  The two roundings to float that the code performs           *)
(* (1.f/float(N), and the narrowing of 1.f/float(N) - 1. to float) are     *)
(* modelled by round-to-nearest-even on the 24 bit significand.  NaN and   *)
(* +infinity are values of their own.                                      *)
(***************************************************************************)
EXTENDS Integers, Sequences, FiniteSets, TLC

\* ---------------------------------------------------------------- bounds
MaxNumStates == 4       \* the numStates argument is 0..MaxNumStates
MaxClicks == 4          \* mouse-downs per control
MaxDraws == 2           \* Draw calls per control
NumParams == 7          \* parameters of the plug: indices 0..NumParams-1

\* ------------------------------------------------------ program constants
kNoParameter == -1
FloatMantBits == 24

RECURSIVE Pow2(_)
Pow2(n) == IF n = 0 THEN 1 ELSE 2 * Pow2(n - 1)

\* 1.0 in units of 2^-24
ONE == Pow2(FloatMantBits)

IntMin == (-2147483647) - 1
IntMax == 2147483647

\* ------------------------------------------------------------ the values
Fin(n) == [k |-> "fin", n |-> n]
NaN == [k |-> "nan", n |-> 0]
PInf == [k |-> "inf", n |-> 0]

Abs(n) == IF n < 0 THEN -n ELSE n

\* p/q rounded to the nearest integer, ties to even (p >= 0, q > 0)
RNE(p, q) ==
  LET f == p \div q
      r == p % q
  IN  IF 2 * r < q THEN f
      ELSE IF 2 * r > q THEN f + 1
      ELSE IF f % 2 = 0 THEN f ELSE f + 1

\* the least e >= from with 2^e / n >= 2^23: the scale at which 1/n has a
\* 24 bit significand
RECURSIVE RecipExp(_, _)
RecipExp(n, from) ==
  IF Pow2(from) >= n * Pow2(FloatMantBits - 1) THEN from ELSE RecipExp(n, from + 1)

\* a / b truncated toward zero (b # 0), as a double-to-int conversion does
TruncDiv(a, b) ==
  LET q == Abs(a) \div Abs(b)
  IN  IF (a < 0) = (b < 0) THEN q ELSE -q

\* the float 1.f/float(n) - 1. narrowed to float
StepOf(n) ==
  IF n = 0 THEN PInf
  ELSE LET e == RecipExp(n, FloatMantBits - 1)
           m == RNE(Pow2(e), n)
           d == Pow2(e) - m
       IN  IF e < FloatMantBits THEN Fin(-(d * Pow2(FloatMantBits - e)))
           ELSE Fin(-RNE(d, Pow2(e - FloatMantBits)))

\* mValue += step
AddStep(v, s) ==
  IF v.k = "nan" THEN NaN
  ELSE IF s.k = "inf" THEN PInf
  ELSE Fin(v.n + s.n)

\* fmod(1., y)
Fmod1(y) ==
  IF y.k = "nan" THEN NaN
  ELSE IF y.k = "inf" THEN Fin(ONE)
  ELSE IF y.n = 0 THEN NaN
  ELSE Fin(ONE % Abs(y.n))

\* mValue = !mValue with the bool converted back to double
LNotArith(v) == IF v.k = "fin" THEN Fin(ONE - v.n) ELSE v
LNot(v) == IF v.k = "fin" /\ v.n = 0 THEN Fin(ONE) ELSE Fin(0)

\* the value OnMouseDown stores
NextValue(v, n) ==
  IF n = 2 THEN LNot(v)
  ELSE Fmod1(AddStep(v, StepOf(n)))

\* (uint32_t) of a range given in halves
ToUint32(halves) == halves \div 2

\* the state count the constructor stores
NumStatesArgOnly(range, paramIdx, numStates) == numStates
NumStatesFor(range, paramIdx, numStates) ==
  IF paramIdx > -1 THEN ToUint32(range[paramIdx]) + 1 ELSE numStates

\* const int state = mValue / mStep; a conversion of NaN or an infinity is
\* undefined: cvt is what the build's conversion instruction yields then
StateOf(v, s, cvt) ==
  LET invalid(isNan) ==
        IF cvt = "indefinite" THEN IntMin
        ELSE IF isNan THEN 0 ELSE IntMax
  IN  IF v.k = "nan" THEN invalid(TRUE)
      ELSE IF s.k = "inf" THEN 0
      ELSE IF s.n = 0 THEN invalid(v.n = 0)
      ELSE TruncDiv(v.n, s.n)

WholeRect == [op |-> "mRECT", n |-> 0, slice |-> 0, pad |-> 0]
Handle(dir, n, state) ==
  [op |-> IF dir = "kHorizontal" THEN "SubRectHorizontal" ELSE "SubRectVertical",
   n |-> n, slice |-> state, pad |-> -10]
FillRect(color, rect) == [fn |-> "FillRect", color |-> color, rect |-> rect]

\* the calls one Draw makes on the graphics context, in order
DrawCallsSwapped(v, n, s, dir, fg, bg, cvt) ==
  << FillRect(fg, Handle(dir, n, StateOf(v, s, cvt))), FillRect(bg, WholeRect) >>
DrawCalls(v, n, s, dir, fg, bg, cvt) ==
  << FillRect(bg, WholeRect), FillRect(fg, Handle(dir, n, StateOf(v, s, cvt))) >>

\* ------------------------------------------------------------- the state
VARIABLES
  ndebug,         \* the build defines NDEBUG: assert compiles to nothing
  fcvt,           \* the build's result for an invalid double-to-int conversion
  pc,             \* "new", "live" (constructed) or "aborted" (assert failed)
  argNumStates,   \* the numStates argument the constructor was given
  mParamIdx,
  mNumStates,
  mValue,
  mStep,
  mDirection,
  mFGColor,
  mBGColor,
  mActionFunc,    \* TRUE when the action function is not nullptr
  mDirty,
  actionCalls,    \* number of calls of the action function
  hist,           \* mValue at construction and after every mouse-down
  drawn,          \* the graphics calls of the latest Draw
  drawCount,
  mouseSinceDraw, \* a mouse-down happened after the latest Draw
  repeatedDraw    \* the latest Draw followed a Draw with no mouse-down in between

vars == << ndebug, fcvt, pc, argNumStates, mParamIdx, mNumStates,
           mValue, mStep, mDirection, mFGColor, mBGColor, mActionFunc, mDirty,
           actionCalls, hist, drawn, drawCount, mouseSinceDraw, repeatedDraw >>

build == << ndebug, fcvt >>
fields == << mParamIdx, mNumStates, mValue, mStep, mDirection, mFGColor, mBGColor, mActionFunc >>

\* the plug's parameters: parameter i has GetRange() = i/2, held in halves
\* (0, 0.5, 1, 1.5, ...)
ParamRange == [i \in 0 .. NumParams - 1 |-> i]

\* the colour pairs (foreground, background) a control is built with
ColorPairs == { << "COLOR_BLACK", "COLOR_WHITE" >>, << "COLOR_WHITE", "COLOR_BLACK" >> }
StartValues == { Fin(0), Fin(ONE \div 2), Fin(ONE) }
Directions == { "kVertical", "kHorizontal" }

Init ==
  /\ ndebug \in BOOLEAN
  /\ fcvt \in { "indefinite", "saturate" }
  /\ pc = "new"
  /\ argNumStates = 2
  /\ mParamIdx = kNoParameter
  /\ mNumStates = 0
  /\ mValue = Fin(0)
  /\ mStep = Fin(0)
  /\ mDirection = "kVertical"
  /\ mFGColor = "COLOR_BLACK"
  /\ mBGColor = "COLOR_WHITE"
  /\ mActionFunc = FALSE
  /\ mDirty = FALSE
  /\ actionCalls = 0
  /\ hist = << >>
  /\ drawn = << >>
  /\ drawCount = 0
  /\ mouseSinceDraw = FALSE
  /\ repeatedDraw = FALSE

\* IVSwitchControl::IVSwitchControl, with the IButtonControlBase constructor
\* it runs first
Construct(paramIdx, numStates, dir, fg, bg, af, v) ==
  /\ pc = "new"
  /\ LET n == NumStatesFor(ParamRange, paramIdx, numStates)
     IN  /\ mNumStates' = n
         /\ argNumStates' = numStates
         /\ mParamIdx' = paramIdx
         /\ IF n > 1 \/ ndebug
            THEN /\ pc' = "live"
                 /\ mValue' = v
                 /\ mStep' = StepOf(n)
                 /\ mDirection' = dir
                 /\ mFGColor' = fg
                 /\ mBGColor' = bg
                 /\ mActionFunc' = af
                 /\ hist' = << v >>
            ELSE /\ pc' = "aborted"
                 /\ UNCHANGED << mValue, mStep, mDirection, mFGColor, mBGColor,
                                 mActionFunc, hist >>
  /\ UNCHANGED << build, mDirty, actionCalls, drawn, drawCount, mouseSinceDraw, repeatedDraw >>

\* IButtonControlBase::OnMouseDown
OnMouseDown ==
  /\ pc = "live"
  /\ Len(hist) <= MaxClicks
  /\ mValue' = NextValue(mValue, mNumStates)
  /\ actionCalls' = IF mActionFunc THEN actionCalls + 1 ELSE actionCalls
  /\ mDirty' = TRUE
  /\ hist' = Append(hist, mValue')
  /\ mouseSinceDraw' = TRUE
  /\ repeatedDraw' = FALSE
  /\ UNCHANGED << build, pc, argNumStates, mParamIdx, mNumStates, mStep, mDirection,
                  mFGColor, mBGColor, mActionFunc, drawn, drawCount >>

\* IVSwitchControl::Draw
Draw ==
  /\ pc = "live"
  /\ drawCount < MaxDraws
  /\ drawn' = DrawCalls(mValue, mNumStates, mStep, mDirection, mFGColor, mBGColor, fcvt)
  /\ drawCount' = drawCount + 1
  /\ mouseSinceDraw' = FALSE
  /\ repeatedDraw' = (drawCount > 0 /\ ~mouseSinceDraw)
  /\ UNCHANGED << build, pc, argNumStates, fields, mDirty, actionCalls, hist >>

Next ==
  \/ \E paramIdx \in kNoParameter .. NumParams - 1, numStates \in 0 .. MaxNumStates,
        dir \in Directions, col \in ColorPairs, af \in BOOLEAN, v \in StartValues :
       Construct(paramIdx, numStates, dir, col[1], col[2], af, v)
  \/ OnMouseDown
  \/ Draw

Spec == Init /\ [][Next]_vars

\* ---------------------------------------------------------------- claims

\* C1: a switch with N >= 2 states that starts at value 0 cycles: the first N
\* mouse-downs leave N distinct values in mValue and the N-th one brings
\* mValue back to 0.  (hist[1] is the start value, hist[i+1] the value after
\* the i-th mouse-down.)
C1_ClickCycles ==
  (pc = "live" /\ mNumStates >= 2 /\ hist[1] = Fin(0) /\ Len(hist) > mNumStates)
    => /\ Cardinality({ hist[i + 1] : i \in 1 .. mNumStates }) = mNumStates
       /\ hist[mNumStates + 1] = Fin(0)

\* C2 as stated: a constructed control bound to a parameter has
\* mNumStates = GetRange() + 1 whatever numStates was passed, and one without
\* a parameter has mNumStates = numStates.
C2_RangePlusOne ==
  pc = "live" =>
    IF mParamIdx > -1
    THEN 2 * mNumStates = ParamRange[mParamIdx] + 2
    ELSE mNumStates = argNumStates

\* C2 amended: a constructed control bound to a parameter has mNumStates - 1
\* equal to GetRange() with its fraction dropped (mNumStates - 1 <= GetRange()
\* < mNumStates) whatever numStates was passed, and one without a parameter
\* has mNumStates = numStates.
C2_TruncatedRangePlusOne ==
  pc = "live" =>
    IF mParamIdx > -1
    THEN /\ 2 * (mNumStates - 1) <= ParamRange[mParamIdx]
         /\ ParamRange[mParamIdx] < 2 * mNumStates
    ELSE mNumStates = argNumStates

\* a control bound to a parameter of fractional range, built with a numStates
\* argument that differs from the count it got
C2_Witness ==
  /\ pc = "live"
  /\ mParamIdx > -1
  /\ ParamRange[mParamIdx] % 2 = 1
  /\ argNumStates # mNumStates
  /\ mNumStates >= 2

\* C3: every Draw issues exactly two FillRect calls, the background colour
\* over mRECT and then the foreground colour over the handle rectangle, leaves
\* mValue, mNumStates, mStep, mDirection and the parameter binding as they
\* were, and repeats the calls of the Draw before it when no mouse-down came
\* in between.
C3_DrawOnlyRenders ==
  [][ drawCount' # drawCount =>
        /\ UNCHANGED << mValue, mNumStates, mStep, mDirection, mParamIdx >>
        /\ Len(drawn') = 2
        /\ drawn'[1] = FillRect(mBGColor, WholeRect)
        /\ drawn'[2].fn = "FillRect"
        /\ drawn'[2].color = mFGColor
        /\ drawn'[2].rect.op \in { "SubRectHorizontal", "SubRectVertical" }
        /\ drawn'[2].rect.n = mNumStates
        /\ ((drawCount > 0 /\ ~mouseSinceDraw) => drawn' = drawn) ]_vars

\* two Draws in a row, after a mouse-down, of a switch with more than two
\* states and distinct colours
C3_Witness ==
  /\ pc = "live"
  /\ repeatedDraw
  /\ Len(drawn) = 2
  /\ mNumStates >= 3
  /\ mDirty
  /\ mFGColor # mBGColor

\* C4: with mNumStates = 2 every mouse-down stores 1 when mValue was 0 and 0
\* when it was anything else, so mValue is 0 or 1 after the first mouse-down
\* and two mouse-downs from 0 or 1 give the value back.
C4_TwoStateToggle ==
  (pc = "live" /\ mNumStates = 2) =>
    /\ mValue = hist[Len(hist)]
    /\ \A i \in 2 .. Len(hist) :
         /\ hist[i] = (IF hist[i - 1] = Fin(0) THEN Fin(ONE) ELSE Fin(0))
         /\ hist[i] \in { Fin(0), Fin(ONE) }
    /\ \A i \in 1 .. Len(hist) - 2 :
         hist[i] \in { Fin(0), Fin(ONE) } => hist[i + 2] = hist[i]

\* a two-state control that started at 0.5 and took three mouse-downs
C4_Witness ==
  /\ pc = "live"
  /\ mNumStates = 2
  /\ Len(hist) >= 4
  /\ hist[1] = Fin(ONE \div 2)

\* C5: every constructed button control has mNumStates >= 2, whether the
\* count came from a parameter's range or from the numStates argument.
C5_AtLeastTwoStates == pc = "live" => mNumStates >= 2

====
